---- MODULE Spec2Model ----
(***************************************************************************)
(* Test-submission lifecycle of the LMS database layer                     *)
(* (src/database/services.py on top of src/database/db_manager.py).        *)
(*                                                                         *)
(* Every service method is a sequence of SQL statements.  DBManager runs   *)
(* with auto_commit=True and the services never open a transaction, so     *)
(* each statement commits on its own (DBManager.execute).  The model has   *)
(* one action per statement of a handler; the handlers of different        *)
(* requests interleave between statements.                                 *)
(***************************************************************************)
EXTENDS Integers, Sequences, FiniteSets, TLC

\* ---------------------------------------------------------------- bounds
NumProcs == 2          \* concurrent requests
MaxSubs == 2           \* rows of table submissions
MaxAnswers == 2        \* rows of table submission_answers
MaxAttemptsInit == 2   \* largest max_attempts of the assignment
MaxNow == 1            \* clock ticks
MaxTotal == 14         \* largest max_possible_score of a test
MaxSelections == 3     \* longest list of selected options in a response
MaxBlanks == 2         \* most blanks of a fill_blank exercise
MaxPairs == 3          \* longest list of pairs in a matching_words response
MaxWords == 4          \* most words of a short_answer response

Procs == 1..NumProcs

\* -------------------------------------------------------- static test data
\* The test has two questions; the learner picks one of two of the options
\* of the multiple-choice question.
Questions == {1, 2}
DataVals == {"A", "B"}

\* ------------------------------------------------------ program constants
NoDue == -1            \* due_at IS NULL
NoId == 0              \* no row / None
NoScore == -1          \* score IS NULL
NoPercentage == -1      \* percentage IS NULL

\* Exercise of a question: question 2 is a long_answer graded by hand, every
\* other question is an auto-graded multiple_choice.
exercise_type(q) == IF q = 2 THEN "long_answer" ELSE "multiple_choice"
grading_type(q) == IF exercise_type(q) = "long_answer" THEN "manual" ELSE "auto"
max_score(q) == IF exercise_type(q) = "long_answer" THEN 10 ELSE 1
correct_option(q) == "B"

VARIABLES
    student_tests,   \* table student_tests for the one (student, test): <<>> or <<row>>
    submissions,     \* table submissions: sequence of rows, id = index
    answers,         \* table submission_answers: sequence of rows, id = index
    scores,          \* table scores: sequence of rows
    evaluation,      \* the last evaluation made: its inputs and its verdict
    now,             \* the clock read by can_take_test
    pc,              \* pc[p]: the statement request p executes next
    loc,             \* loc[p]: the local variables of request p's handler
    result           \* result[p]: the last call of p: operation, outcome, status it read

vars == <<student_tests, submissions, answers, scores, evaluation, now, pc, loc, result>>

NoAgg == [total_score |-> 0, max_possible_score |-> 0]

NoLoc == [sid |-> NoId, qid |-> NoId, data |-> "none", st |-> <<>>,
          existing |-> NoId, snap |-> <<>>, i |-> 0,
          aid |-> NoId, is_correct |-> "null", score |-> NoScore,
          repeat |-> FALSE, agg |-> NoAgg]

NoResult == [op |-> "none", outcome |-> "none", seen |-> "none"]

NoEvaluation == [evaluator |-> "none", exercise_type |-> "none",
                 grading_type |-> "none", matches |-> FALSE, max_score |-> 0,
                 is_correct |-> "null", score |-> NoScore, graded_by |-> "unset"]

\* ------------------------------------------------------------ AttemptPolicy
\* StudentTest.can_take_test: fails closed when the attempts are used up or
\* the due date has passed.
can_take_test(st, t) ==
    /\ st.attempts_used < st.max_attempts
    /\ ~(st.due_at # NoDue /\ t > st.due_at)

\* StudentTest.increment_attempts: the object counts one attempt more and the
\* row's counter is incremented atomically in the database.
increment_attempts(row) ==
    [row EXCEPT !.attempts_used = @ + 1]

\* Submission.submit: the submission becomes submitted.
submit(row) ==
    [row EXCEPT !.status = "submitted"]

\* SubmissionAnswer.grade: the verdict is stored on the answer.
grade(row, is_correct, score, graded_by) ==
    [row EXCEPT !.is_correct = is_correct, !.score = score, !.graded_by = graded_by]

\* Score.calculate_for_submission: once the aggregation has run the
\* submission is graded.
calculate_for_submission(row) ==
    [row EXCEPT !.status = "graded"]

Init ==
    /\ student_tests \in {<<>>} \cup
          { <<[max_attempts |-> m, attempts_used |-> 0, due_at |-> d]>> :
                m \in 1..MaxAttemptsInit, d \in {NoDue, 0} }
    /\ submissions = <<>>
    /\ answers = <<>>
    /\ scores = <<>>
    /\ evaluation = NoEvaluation
    /\ now = 0
    /\ pc = [p \in Procs |-> "idle"]
    /\ loc = [p \in Procs |-> NoLoc]
    /\ result = [p \in Procs |-> NoResult]

\* The caller's clock advances.
Tick ==
    /\ now < MaxNow
    /\ now' = now + 1
    /\ UNCHANGED <<evaluation, student_tests, submissions, answers, scores, pc, loc, result>>

\* The handler of request p returns (or raises): its locals are gone.
Return(p, o, outcome, seen) ==
    /\ pc' = [pc EXCEPT ![p] = "idle"]
    /\ loc' = [loc EXCEPT ![p] = NoLoc]
    /\ result' = [result EXCEPT ![p] = [op |-> o, outcome |-> outcome, seen |-> seen]]

\* The handler of request p goes on with statement l.
Goto(p, o, l, newloc, seen) ==
    /\ pc' = [pc EXCEPT ![p] = l]
    /\ loc' = [loc EXCEPT ![p] = newloc]
    /\ result' = [result EXCEPT ![p] = [op |-> o, outcome |-> "running", seen |-> seen]]

\* ------------------------------------------------------------- start_test
\* The refusal checks dropped: the call goes on to increment_attempts.
StartCheckNoRefusal(p) ==
    /\ pc[p] = "idle"
    /\ Len(submissions) < MaxSubs
    /\ student_tests # <<>>
    /\ Goto(p, "start_test", "start_increment",
            [NoLoc EXCEPT !.st = student_tests], "none")
    /\ UNCHANGED <<evaluation, student_tests, submissions, answers, scores, now>>

\* services.py 141-150: read the assignment, refuse when it is missing or
\* can_take_test() is false.
StartCheck(p) ==
    /\ pc[p] = "idle"
    /\ IF student_tests = <<>>
         THEN Return(p, "start_test", "ValidationError", "none")
         ELSE IF ~can_take_test(student_tests[1], now)
         THEN Return(p, "start_test", "ValidationError", "none")
         ELSE /\ Len(submissions) < MaxSubs
              /\ Goto(p, "start_test", "start_increment",
                      [NoLoc EXCEPT !.st = student_tests], "none")
    /\ UNCHANGED <<evaluation, student_tests, submissions, answers, scores, now>>

\* services.py 152-153: student_test.increment_attempts(...)
StartIncrement(p) ==
    /\ pc[p] = "start_increment"
    /\ student_tests' = <<increment_attempts(student_tests[1])>>
    /\ loc' = [loc EXCEPT ![p].st = <<increment_attempts(loc[p].st[1])>>]
    /\ pc' = [pc EXCEPT ![p] = "start_save"]
    /\ UNCHANGED <<evaluation, submissions, answers, scores, now, result>>

\* services.py 155-169: create the Submission row and return it.
StartSave(p) ==
    /\ pc[p] = "start_save"
    /\ submissions' = Append(submissions,
          [status |-> "in_progress",
           attempt_number |-> loc[p].st[1].attempts_used,
           completions |-> 0,
           needs_manual |-> "none"])
    /\ Return(p, "start_test", "ok", "none")
    /\ UNCHANGED <<evaluation, student_tests, answers, scores, now>>

\* A start call that dies between its statements (submission.save raises, or
\* the client disconnects): what was committed stays committed.
StartAbandon(p) ==
    /\ pc[p] \in {"start_increment", "start_save"}
    /\ Return(p, "start_test", "abandoned", "none")
    /\ UNCHANGED <<evaluation, student_tests, submissions, answers, scores, now>>

\* ----------------------------------------------------------- submit_answer
\* The rows of submission_answers of one question of one submission.
AnswerIds(sid, qid) ==
    { a \in 1..Len(answers) :
        answers[a].submission_id = sid /\ answers[a].question_id = qid }

\* The status check dropped: the call goes on whatever the status is.
AnswerCheckNoStatus(p, sid, qid, data) ==
    /\ pc[p] = "idle"
    /\ sid <= Len(submissions)
    /\ Len(answers) < MaxAnswers \/ AnswerIds(sid, qid) # {}
    /\ Goto(p, "submit_answer", "answer_select",
            [NoLoc EXCEPT !.sid = sid, !.qid = qid, !.data = data],
            submissions[sid].status)
    /\ UNCHANGED <<evaluation, student_tests, submissions, answers, scores, now>>

\* services.py 175-197: read the submission, refuse when it does not exist or
\* is not in progress.  (The question and the exercise of the call exist and
\* belong to the test.)
AnswerCheck(p, sid, qid, data) ==
    /\ pc[p] = "idle"
    /\ IF sid > Len(submissions)
         THEN Return(p, "submit_answer", "ValidationError", "none")
         ELSE IF submissions[sid].status # "in_progress"
         THEN Return(p, "submit_answer", "ValidationError", submissions[sid].status)
         ELSE /\ Len(answers) < MaxAnswers \/ AnswerIds(sid, qid) # {}
              /\ Goto(p, "submit_answer", "answer_select",
                      [NoLoc EXCEPT !.sid = sid, !.qid = qid, !.data = data],
                      submissions[sid].status)
    /\ UNCHANGED <<evaluation, student_tests, submissions, answers, scores, now>>

\* The existence check always finds nothing: every call inserts.
AnswerSelectNothing(p) ==
    /\ pc[p] = "answer_select"
    /\ pc' = [pc EXCEPT ![p] = "answer_insert"]
    /\ UNCHANGED <<evaluation, student_tests, submissions, answers, scores, now, loc, result>>

\* The existence check without the submission_id condition: a row of the
\* question in any submission is taken for the existing answer.
AnswerSelectAnySubmission(p) ==
    /\ pc[p] = "answer_select"
    /\ LET ids == { a \in 1..Len(answers) : answers[a].question_id = loc[p].qid }
       IN  IF ids = {}
             THEN /\ pc' = [pc EXCEPT ![p] = "answer_insert"]
                  /\ UNCHANGED loc
             ELSE \E a \in ids :
                  /\ pc' = [pc EXCEPT ![p] = "answer_update"]
                  /\ loc' = [loc EXCEPT ![p].existing = a]
    /\ UNCHANGED <<evaluation, student_tests, submissions, answers, scores, now, result>>

\* services.py 206-214: SELECT id FROM submission_answers WHERE submission_id
\* and question_id match; fetch_one returns one of the matching rows.
AnswerSelect(p) ==
    /\ pc[p] = "answer_select"
    /\ IF AnswerIds(loc[p].sid, loc[p].qid) = {}
         THEN /\ pc' = [pc EXCEPT ![p] = "answer_insert"]
              /\ UNCHANGED loc
         ELSE \E a \in AnswerIds(loc[p].sid, loc[p].qid) :
              /\ pc' = [pc EXCEPT ![p] = "answer_update"]
              /\ loc' = [loc EXCEPT ![p].existing = a]
    /\ UNCHANGED <<evaluation, student_tests, submissions, answers, scores, now, result>>

\* services.py 215-216: answer.answer_data = answer_data; answer.save(...)
\* wstatus records the status the submission has when the row is written.
AnswerUpdate(p) ==
    /\ pc[p] = "answer_update"
    /\ answers' = [answers EXCEPT ![loc[p].existing].answer_data = loc[p].data,
                                  ![loc[p].existing].wstatus =
                                      submissions[loc[p].sid].status]
    /\ Return(p, "submit_answer", "ok_update", result[p].seen)
    /\ UNCHANGED <<evaluation, student_tests, submissions, scores, now>>

\* services.py 218-226: SubmissionAnswer(...).save(...)
AnswerInsert(p) ==
    /\ pc[p] = "answer_insert"
    /\ answers' = Append(answers,
          [submission_id |-> loc[p].sid,
           question_id |-> loc[p].qid,
           answer_data |-> loc[p].data,
           is_correct |-> "null",
           score |-> NoScore,
           graded_by |-> "unset",
           wstatus |-> submissions[loc[p].sid].status])
    /\ Return(p, "submit_answer", "ok_insert", result[p].seen)
    /\ UNCHANGED <<evaluation, student_tests, submissions, scores, now>>

\* ----------------------------------------------------- complete_submission
\* services.py 300-469 (the types of the test's exercises):
\* _auto_grade_answer returns (is_correct, score).
auto_grade_answer(q, data) ==
    IF exercise_type(q) = "multiple_choice"
      THEN IF data = correct_option(q)
             THEN [is_correct |-> "true", score |-> max_score(q)]
             ELSE [is_correct |-> "false", score |-> 0]
      ELSE [is_correct |-> "false", score |-> 0]

\* services.py 234-240: read the submission, refuse when it does not exist or
\* is not in progress.
CompleteCheck(p, sid) ==
    /\ pc[p] = "idle"
    /\ IF sid > Len(submissions)
         THEN Return(p, "complete_submission", "ValidationError", "none")
         ELSE IF submissions[sid].status # "in_progress"
         THEN Return(p, "complete_submission", "ValidationError",
                     submissions[sid].status)
         ELSE Goto(p, "complete_submission", "complete_get_answers",
                   [NoLoc EXCEPT !.sid = sid], submissions[sid].status)
    /\ UNCHANGED <<evaluation, student_tests, submissions, answers, scores, now>>

\* Submission.get_answers: the rows of the submission, as objects holding a
\* copy of each row.
get_answers(sid) ==
    LET ids == { a \in 1..Len(answers) : answers[a].submission_id = sid }
        F[n \in 0..Len(answers)] ==
            IF n = 0 THEN <<>>
            ELSE IF n \in ids
                   THEN Append(F[n-1], [id |-> n,
                                        question_id |-> answers[n].question_id,
                                        answer_data |-> answers[n].answer_data])
                   ELSE F[n-1]
    IN  F[Len(answers)]

\* services.py 242-243: answers = submission.get_answers(...)
CompleteGetAnswers(p) ==
    /\ pc[p] = "complete_get_answers"
    /\ loc' = [loc EXCEPT ![p].snap = get_answers(loc[p].sid), ![p].i = 1]
    /\ pc' = [pc EXCEPT ![p] = "complete_submit"]
    /\ UNCHANGED <<evaluation, student_tests, submissions, answers, scores, now, result>>

\* services.py 245-246: submission.submit(...) stores status submitted.
CompleteSubmit(p) ==
    /\ pc[p] = "complete_submit"
    /\ submissions' = [submissions EXCEPT ![loc[p].sid] = submit(@)]
    /\ pc' = [pc EXCEPT ![p] = "complete_grade"]
    /\ UNCHANGED <<evaluation, student_tests, answers, scores, now, loc, result>>

\* services.py 255-279: one iteration of the grading loop: skip an answer
\* whose exercise is not auto-gradable, grade and store the verdict of the
\* others (SubmissionAnswer.grade with graded_by='auto').
CompleteGrade(p) ==
    /\ pc[p] = "complete_grade"
    /\ loc[p].i <= Len(loc[p].snap)
    /\ LET a == loc[p].snap[loc[p].i]
           v == auto_grade_answer(a.question_id, a.answer_data)
       IN  IF grading_type(a.question_id) # "auto"
             THEN UNCHANGED answers
             ELSE answers' = [answers EXCEPT
                                 ![a.id] = grade(@, v.is_correct, v.score, "auto")]
    /\ loc' = [loc EXCEPT ![p].i = @ + 1]
    /\ UNCHANGED <<evaluation, student_tests, submissions, scores, now, pc, result>>

\* ---------------------------------------------------------- ScoreAggregator
\* The answer the aggregation takes for question q of submission sid: the
\* first row of that question, NoId when the question was not answered.
answer_of(sid, q) ==
    LET ids == { a \in 1..Len(answers) :
                    answers[a].submission_id = sid /\ answers[a].question_id = q }
    IN  IF ids = {} THEN NoId
        ELSE CHOOSE a \in ids : \A b \in ids : a <= b

\* The score an answer contributes: 0 when the question is unanswered or
\* ungraded, else the stored score clamped to [0, max_score].
clamped_score(sid, q) ==
    LET a == answer_of(sid, q)
    IN  IF a = NoId THEN 0
        ELSE IF answers[a].score = NoScore THEN 0
        ELSE IF answers[a].score < 0 THEN 0
        ELSE IF answers[a].score > max_score(q) THEN max_score(q)
        ELSE answers[a].score

\* The sum of f over the questions of the test (each of weight 1).
RECURSIVE sum_over(_, _, _)
sum_over(qs, sid, maxima) ==
    IF qs = {} THEN 0
    ELSE LET q == CHOOSE x \in qs : TRUE
         IN  (IF maxima THEN max_score(q) ELSE clamped_score(sid, q))
               + sum_over(qs \ {q}, sid, maxima)

\* ScoreAggregator.aggregate: the totals read from the current answers.
aggregate(sid) ==
    [total_score |-> sum_over(Questions, sid, FALSE),
     max_possible_score |-> sum_over(Questions, sid, TRUE)]

score_ids(scs, sid) ==
    { k \in 1..Len(scs) : scs[k].submission_id = sid }

\* Every recalculation adds a Score row instead of replacing the one of the
\* submission.
store_score_append(scs, sid, agg) ==
    Append(scs, [submission_id |-> sid, total_score |-> agg.total_score,
                 max_possible_score |-> agg.max_possible_score])

\* Score.calculate_for_submission, second statement: the totals are saved
\* as the one Score row of the submission.
store_score(scs, sid, agg) ==
    LET row == [submission_id |-> sid, total_score |-> agg.total_score,
                max_possible_score |-> agg.max_possible_score]
    IN  IF score_ids(scs, sid) = {} THEN Append(scs, row)
        ELSE [k \in 1..Len(scs) |-> IF scs[k].submission_id = sid
                                      THEN row ELSE scs[k]]

\* services.py 290-293: needs_manual_grading of the returned result: some
\* answer of the list read at the start belongs to a manual exercise.
needs_manual_grading(snap) ==
    IF \E k \in 1..Len(snap) : grading_type(snap[k].question_id) = "manual"
      THEN "true" ELSE "false"

\* services.py 281-284: Score.calculate_for_submission(...), first
\* statement: the answers are read and the totals computed.
CompleteAggregate(p) ==
    /\ pc[p] = "complete_grade"
    /\ loc[p].i > Len(loc[p].snap)
    /\ loc' = [loc EXCEPT ![p].agg = aggregate(loc[p].sid)]
    /\ pc' = [pc EXCEPT ![p] = "complete_score"]
    /\ UNCHANGED <<evaluation, student_tests, submissions, answers, scores, now, result>>

\* services.py 281-297: Score.calculate_for_submission(...), second
\* statement: the Score is saved, after which the submission is graded; the
\* call returns.  completions counts the complete calls that returned a
\* result, needs_manual is the needs_manual_grading last returned.
CompleteScore(p) ==
    /\ pc[p] = "complete_score"
    /\ scores' = store_score(scores, loc[p].sid, loc[p].agg)
    /\ submissions' = [submissions EXCEPT
          ![loc[p].sid] = [calculate_for_submission(@) EXCEPT
                              !.completions = @ + 1,
                              !.needs_manual = needs_manual_grading(loc[p].snap)]]
    /\ Return(p, "complete_submission", "ok", result[p].seen)
    /\ UNCHANGED <<evaluation, student_tests, answers, now>>

\* ------------------------------------------------- manually_grade_answer
\* The verdicts a grader passes: (is_correct, score).
ManualVerdicts == { <<"true", 1>>, <<"false", 0>>, <<"true", 11>> }

AnswerRowIds == 1..(MaxAnswers + 1)

\* services.py 476-479: answer = SubmissionAnswer.find_by_id(answer_id);
\* a missing answer raises ValidationError.  The status of the parent
\* submission is not read; seen records what it was at this point.
ManualFind(p, aid, v) ==
    /\ pc[p] = "idle"
    /\ IF aid > Len(answers)
         THEN Return(p, "manually_grade_answer", "ValidationError", "none")
         ELSE Goto(p, "manually_grade_answer", "manual_grade",
                   [NoLoc EXCEPT !.aid = aid, !.sid = answers[aid].submission_id,
                                 !.is_correct = v[1], !.score = v[2]],
                   submissions[answers[aid].submission_id].status)
    /\ UNCHANGED <<evaluation, student_tests, submissions, answers, scores, now>>

\* services.py 481-492: answer.grade(is_correct, score, ...,
\* graded_by=username or 'manual'): the caller's verdict is stored as given.
\* repeat records that the row already held this manual verdict.
ManualGrade(p) ==
    /\ pc[p] = "manual_grade"
    /\ answers' = [answers EXCEPT ![loc[p].aid] =
                      grade(@, loc[p].is_correct, loc[p].score, "manual")]
    /\ loc' = [loc EXCEPT ![p].repeat =
                  /\ answers[loc[p].aid].is_correct = loc[p].is_correct
                  /\ answers[loc[p].aid].score = loc[p].score
                  /\ answers[loc[p].aid].graded_by = "manual"]
    /\ pc' = [pc EXCEPT ![p] = "manual_aggregate"]
    /\ UNCHANGED <<evaluation, student_tests, submissions, scores, now, result>>

\* services.py 494-497: Score.calculate_for_submission(answer.submission_id),
\* first statement: the answers are read and the totals computed.
ManualAggregate(p) ==
    /\ pc[p] = "manual_aggregate"
    /\ loc' = [loc EXCEPT ![p].agg = aggregate(loc[p].sid)]
    /\ pc' = [pc EXCEPT ![p] = "manual_score"]
    /\ UNCHANGED <<evaluation, student_tests, submissions, answers, scores, now, result>>

\* services.py 494-502: Score.calculate_for_submission(...), second
\* statement: the Score is saved; the call returns the answer and the score.
ManualScore(p) ==
    /\ pc[p] = "manual_score"
    /\ scores' = store_score(scores, loc[p].sid, loc[p].agg)
    /\ submissions' = [submissions EXCEPT
                          ![loc[p].sid] = calculate_for_submission(@)]
    /\ Return(p, "manually_grade_answer",
              IF loc[p].repeat THEN "ok_repeat" ELSE "ok", result[p].seen)
    /\ UNCHANGED <<evaluation, student_tests, answers, now>>

SubIds == 1..(MaxSubs + 1)

\* ---------------------------------------------------------- specifications
\* start_test reads and writes student_tests and appends to submissions;
\* submit_answer and complete_submission read and write one existing
\* submission and its answers.  The attempt policy is checked under SpecStart,
\* the lifecycle of a submission under SpecLife, which begins in the state the
\* first start_test leaves behind.
NextStart ==
    \/ Tick
    \/ \E p \in Procs : StartCheck(p)
    \/ \E p \in Procs : StartIncrement(p)
    \/ \E p \in Procs : StartSave(p)
    \/ \E p \in Procs : StartAbandon(p)

SpecStart == Init /\ [][NextStart]_vars

InitLife ==
    /\ student_tests = <<[max_attempts |-> 1, attempts_used |-> 1, due_at |-> NoDue]>>
    /\ submissions = <<[status |-> "in_progress", attempt_number |-> 1,
                        completions |-> 0, needs_manual |-> "none"]>>
    /\ answers = <<>>
    /\ scores = <<>>
    /\ evaluation = NoEvaluation
    /\ now = 0
    /\ pc = [p \in Procs |-> "idle"]
    /\ loc = [p \in Procs |-> NoLoc]
    /\ result = [p \in Procs |-> NoResult]

NextLife ==
    \/ \E p \in Procs, sid \in SubIds, qid \in Questions, data \in DataVals :
          AnswerCheck(p, sid, qid, data)
    \/ \E p \in Procs : AnswerSelect(p)
    \/ \E p \in Procs : AnswerUpdate(p)
    \/ \E p \in Procs : AnswerInsert(p)
    \/ \E p \in Procs, sid \in SubIds : CompleteCheck(p, sid)
    \/ \E p \in Procs : CompleteGetAnswers(p)
    \/ \E p \in Procs : CompleteSubmit(p)
    \/ \E p \in Procs : CompleteGrade(p)
    \/ \E p \in Procs : CompleteAggregate(p)
    \/ \E p \in Procs : CompleteScore(p)

SpecLife == InitLife /\ [][NextLife]_vars

\* The same calls made one after the other: a request takes a step only
\* while no other request is in the middle of its handler.
Alone(p) == \A q \in Procs \ {p} : pc[q] = "idle"

NextSeq ==
    \/ \E p \in Procs, sid \in SubIds, qid \in Questions, data \in DataVals :
          Alone(p) /\ AnswerCheck(p, sid, qid, data)
    \/ \E p \in Procs : Alone(p) /\ AnswerSelect(p)
    \/ \E p \in Procs : Alone(p) /\ AnswerUpdate(p)
    \/ \E p \in Procs : Alone(p) /\ AnswerInsert(p)
    \/ \E p \in Procs, sid \in SubIds : Alone(p) /\ CompleteCheck(p, sid)
    \/ \E p \in Procs : Alone(p) /\ CompleteGetAnswers(p)
    \/ \E p \in Procs : Alone(p) /\ CompleteSubmit(p)
    \/ \E p \in Procs : Alone(p) /\ CompleteGrade(p)
    \/ \E p \in Procs : Alone(p) /\ CompleteAggregate(p)
    \/ \E p \in Procs : Alone(p) /\ CompleteScore(p)

SpecSeq == InitLife /\ [][NextSeq]_vars

\* Grading: the submission of InitLife after the learner answered both
\* questions; complete_submission and manually_grade_answer calls follow.
InitGrade ==
    /\ student_tests = <<[max_attempts |-> 1, attempts_used |-> 1, due_at |-> NoDue]>>
    /\ submissions = <<[status |-> "in_progress", attempt_number |-> 1,
                        completions |-> 0, needs_manual |-> "none"]>>
    /\ \E d \in DataVals :
          answers = <<[submission_id |-> 1, question_id |-> 1, answer_data |-> d,
                       is_correct |-> "null", score |-> NoScore,
                       graded_by |-> "unset", wstatus |-> "in_progress"],
                      [submission_id |-> 1, question_id |-> 2, answer_data |-> "A",
                       is_correct |-> "null", score |-> NoScore,
                       graded_by |-> "unset", wstatus |-> "in_progress"]>>
    /\ scores = <<>>
    /\ evaluation = NoEvaluation
    /\ now = 0
    /\ pc = [p \in Procs |-> "idle"]
    /\ loc = [p \in Procs |-> NoLoc]
    /\ result = [p \in Procs |-> NoResult]

NextGrade ==
    \/ \E p \in Procs, sid \in SubIds : CompleteCheck(p, sid)
    \/ \E p \in Procs : CompleteGetAnswers(p)
    \/ \E p \in Procs : CompleteSubmit(p)
    \/ \E p \in Procs : CompleteGrade(p)
    \/ \E p \in Procs : CompleteAggregate(p)
    \/ \E p \in Procs : CompleteScore(p)
    \/ \E p \in Procs, aid \in AnswerRowIds, v \in ManualVerdicts :
          ManualFind(p, aid, v)
    \/ \E p \in Procs : ManualGrade(p)
    \/ \E p \in Procs : ManualAggregate(p)
    \/ \E p \in Procs : ManualScore(p)

SpecGrade == InitGrade /\ [][NextGrade]_vars

\* The grading calls made one after the other.
NextGradeSeq ==
    \/ \E p \in Procs, sid \in SubIds : Alone(p) /\ CompleteCheck(p, sid)
    \/ \E p \in Procs : Alone(p) /\ CompleteGetAnswers(p)
    \/ \E p \in Procs : Alone(p) /\ CompleteSubmit(p)
    \/ \E p \in Procs : Alone(p) /\ CompleteGrade(p)
    \/ \E p \in Procs : Alone(p) /\ CompleteAggregate(p)
    \/ \E p \in Procs : Alone(p) /\ CompleteScore(p)
    \/ \E p \in Procs, aid \in AnswerRowIds, v \in ManualVerdicts :
          Alone(p) /\ ManualFind(p, aid, v)
    \/ \E p \in Procs : Alone(p) /\ ManualGrade(p)
    \/ \E p \in Procs : Alone(p) /\ ManualAggregate(p)
    \/ \E p \in Procs : Alone(p) /\ ManualScore(p)

SpecGradeSeq == InitGrade /\ [][NextGradeSeq]_vars

\* Two learners: each has started the test once and has a submission in
\* progress; the first has answered question 1.
InitTwo ==
    /\ student_tests = <<[max_attempts |-> 1, attempts_used |-> 1, due_at |-> NoDue]>>
    /\ submissions = <<[status |-> "in_progress", attempt_number |-> 1,
                        completions |-> 0, needs_manual |-> "none"],
                       [status |-> "in_progress", attempt_number |-> 1,
                        completions |-> 0, needs_manual |-> "none"]>>
    /\ \E d \in DataVals :
          answers = <<[submission_id |-> 1, question_id |-> 1, answer_data |-> d,
                       is_correct |-> "null", score |-> NoScore,
                       graded_by |-> "unset", wstatus |-> "in_progress"]>>
    /\ scores = <<>>
    /\ evaluation = NoEvaluation
    /\ now = 0
    /\ pc = [p \in Procs |-> "idle"]
    /\ loc = [p \in Procs |-> NoLoc]
    /\ result = [p \in Procs |-> NoResult]

NextTwo ==
    \/ \E p \in Procs, sid \in SubIds, qid \in Questions, data \in DataVals :
          Alone(p) /\ AnswerCheck(p, sid, qid, data)
    \/ \E p \in Procs : Alone(p) /\ AnswerSelect(p)
    \/ \E p \in Procs : Alone(p) /\ AnswerUpdate(p)
    \/ \E p \in Procs : Alone(p) /\ AnswerInsert(p)
    \/ NextGradeSeq

SpecTwo == InitTwo /\ [][NextTwo]_vars

\* update_schema.py 205: percentage DECIMAL(5,2) GENERATED ALWAYS AS
\* (total_score / NULLIF(max_possible_score, 0) * 100) STORED, in hundredths
\* of a percent: NULLIF makes the divisor NULL, and so the column NULL, when
\* max_possible_score is 0.
percentage(row) ==
    IF row.max_possible_score = 0 THEN NoPercentage
    ELSE (row.total_score * 10000) \div row.max_possible_score

\* The Score of a submission is saved for a test of any composition: the
\* weighted maxima add up to max_possible, the clamped answer scores to total.
SaveScore(total, max_possible) ==
    /\ total <= max_possible
    /\ scores' = store_score(scores, 1, [total_score |-> total,
                                         max_possible_score |-> max_possible])
    /\ UNCHANGED <<evaluation, student_tests, submissions, answers, now, pc, loc, result>>

NextScore ==
    \E total \in 0..MaxTotal, max_possible \in 0..MaxTotal :
        SaveScore(total, max_possible)

SpecScore == InitGrade /\ [][NextScore]_vars

\* -------------------------------------------------------- EvaluatorDispatcher
\* An exercise is given by its type, its grading_type and its max_score; a
\* response either matches the correct answers in full or does not.
ExerciseTypes ==
    {"multiple_choice", "short_answer", "long_answer", "comprehension", "essay_v2"}

GradingTypes == {"auto", "manual"}

MaxScores == {1, 5}

\* The verdict of an evaluator that compares the response with the answers.
compared(matches, max) ==
    [is_correct |-> IF matches THEN "true" ELSE "false",
     score |-> IF matches THEN max ELSE 0]

\* The verdict is_correct=False, score=0.
not_scored == [is_correct |-> "false", score |-> 0]

\* exercise_evaluator/__init__.py 16-51: evaluate_exercise_response of the
\* package: an exact match of the response against the correct answers,
\* whatever exercise_type is.
package_evaluate_exercise_response(type, matches, max) ==
    compared(matches, max)

\* exercise_evaluator/exercise_evaluator.py 60-80: the if/elif chain on
\* exercise_type.lower(); the else branch returns is_correct=False, score=0
\* with needs_review.
evaluate_exercise_response(type, matches, max) ==
    IF type \in {"word_scramble", "multiple_choice", "fill_blank", "true_false",
                 "matching_words", "short_answer"}
      THEN compared(matches, max)
      ELSE not_scored

\* services/exercise_evaluator.py 261-324: EvaluatorFactory.get_evaluator
\* looks template.type up and falls back to ManualEvaluator, whose evaluate
\* returns score=0, is_correct=False.
get_evaluator(type) ==
    IF type \in {"word_scramble", "multiple_choice", "fill_blank", "true_false",
                 "sentence_reordering", "matching_words", "short_answer",
                 "cloze_test", "syn_ant", "image_labeling"}
      THEN "comparing"
      ELSE "ManualEvaluator"

factory_evaluate(type, matches, max) ==
    IF get_evaluator(type) = "ManualEvaluator"
      THEN not_scored
      ELSE compared(matches, max)

\* services.py 300-469: _auto_grade_answer by exercise_type; long_answer and
\* the else branch leave is_correct=False, score=0.
auto_grade_by_type(type, matches, max) ==
    IF type \in {"multiple_choice", "true_false", "fill_blank", "matching_words",
                 "sentence_reordering", "cloze_test", "word_scramble",
                 "image_labeling"}
      THEN compared(matches, max)
      ELSE not_scored

\* crud/submission.py 147-202: grade_submission returns 0.0 unless
\* grading_type is auto, then the score by exercise_type, 0.0 at the end.
grade_submission(type, grading, matches, max) ==
    IF grading # "auto" THEN 0
    ELSE IF type \in {"multiple_choice", "true_false", "fill_blank",
                      "short_answer", "matching_words"}
           THEN compared(matches, max).score
           ELSE 0

\* The record of an evaluation: its inputs and the verdict stored for it.
Evaluated(name, type, grading, matches, max, ic, sc, gb) ==
    [evaluator |-> name, exercise_type |-> type, grading_type |-> grading,
     matches |-> matches, max_score |-> max,
     is_correct |-> ic, score |-> sc, graded_by |-> gb]

\* A caller evaluates a response with the package's function.
EvaluatePackage(type, grading, matches, max) ==
    /\ evaluation' =
          LET v == package_evaluate_exercise_response(type, matches, max)
          IN  Evaluated("package", type, grading, matches, max,
                        v.is_correct, v.score, "auto")
    /\ UNCHANGED <<student_tests, submissions, answers, scores, now, pc, loc, result>>

\* routes/exercise_routes.py 347-355: the response is evaluated by
\* evaluate_exercise_response(content.template.type.value, ...).
EvaluateFunction(type, grading, matches, max) ==
    /\ evaluation' =
          LET v == evaluate_exercise_response(type, matches, max)
          IN  Evaluated("function", type, grading, matches, max,
                        v.is_correct, v.score, "auto")
    /\ UNCHANGED <<student_tests, submissions, answers, scores, now, pc, loc, result>>

\* services/exercise_evaluator.py 307-324: evaluate_exercise_response of the
\* evaluator classes.
EvaluateFactory(type, grading, matches, max) ==
    /\ evaluation' =
          LET v == factory_evaluate(type, matches, max)
          IN  Evaluated("factory", type, grading, matches, max,
                        v.is_correct, v.score, "auto")
    /\ UNCHANGED <<student_tests, submissions, answers, scores, now, pc, loc, result>>

\* services.py 255-279: the body of the grading loop of complete_submission
\* for one answer: skipped unless grading_type is auto, else the verdict of
\* _auto_grade_answer is stored with graded_by='auto'.
EvaluateService(type, grading, matches, max) ==
    /\ evaluation' =
          LET v == auto_grade_by_type(type, matches, max)
          IN  IF grading # "auto"
                THEN Evaluated("service", type, grading, matches, max,
                               "null", NoScore, "unset")
                ELSE Evaluated("service", type, grading, matches, max,
                               v.is_correct, v.score, "auto")
    /\ UNCHANGED <<student_tests, submissions, answers, scores, now, pc, loc, result>>

\* crud/submission.py 126-137: create_submission stores the score of
\* grade_submission, graded_by "auto" when grading_type is auto, else None.
EvaluateCrud(type, grading, matches, max) ==
    /\ evaluation' =
          Evaluated("crud", type, grading, matches, max, "null",
                    grade_submission(type, grading, matches, max),
                    IF grading = "auto" THEN "auto" ELSE "unset")
    /\ UNCHANGED <<student_tests, submissions, answers, scores, now, pc, loc, result>>

NextEval ==
    \E type \in ExerciseTypes, grading \in GradingTypes,
       matches \in BOOLEAN, max \in MaxScores :
        \/ EvaluatePackage(type, grading, matches, max)
        \/ EvaluateFunction(type, grading, matches, max)
        \/ EvaluateFactory(type, grading, matches, max)
        \/ EvaluateService(type, grading, matches, max)
        \/ EvaluateCrud(type, grading, matches, max)

SpecEval == InitGrade /\ [][NextEval]_vars

\* ---------------------------------------------------------- AnswerEvaluator
\* The lists of at most n elements of S.
ListsOf(S, n) == UNION { [1..k -> S] : k \in 0..n }

\* set(list)
set_of(list) == { list[k] : k \in 1..Len(list) }

Options == {"A", "B", "C"}

\* The scoring mechanisms of the multiple_choice templates.
CorrectPoints == {1, 5, 10}
IncorrectPoints == {-1, 0}

\* The points of the scoring mechanism are not read: a correct response gets
\* the default of 1 point.
evaluate_multiple_choice_default_points(user_selections, correct_answers, allow_multiple, allow_partial, correct_points, incorrect_points) ==
    IF ~allow_multiple /\ Len(user_selections) > 1
      THEN [is_correct |-> "false", score |-> 0,
            error |-> "multiple_selections_not_allowed"]
    ELSE IF set_of(user_selections) = correct_answers
      THEN [is_correct |-> "true", score |-> 1, error |-> "none"]
    ELSE IF allow_partial /\ set_of(user_selections) \cap correct_answers # {}
      THEN [is_correct |-> "false",
            score |-> (correct_points
                         * Cardinality(set_of(user_selections) \cap correct_answers))
                         \div Cardinality(correct_answers),
            error |-> "none"]
    ELSE [is_correct |-> "false", score |-> incorrect_points, error |-> "none"]

\* The incorrect_points of the scoring mechanism are not read: a wrong
\* response gets the default of 0 points.
evaluate_multiple_choice_zero_incorrect(user_selections, correct_answers, allow_multiple, allow_partial, correct_points, incorrect_points) ==
    IF ~allow_multiple /\ Len(user_selections) > 1
      THEN [is_correct |-> "false", score |-> 0,
            error |-> "multiple_selections_not_allowed"]
    ELSE IF set_of(user_selections) = correct_answers
      THEN [is_correct |-> "true", score |-> correct_points, error |-> "none"]
    ELSE IF allow_partial /\ set_of(user_selections) \cap correct_answers # {}
      THEN [is_correct |-> "false",
            score |-> (correct_points
                         * Cardinality(set_of(user_selections) \cap correct_answers))
                         \div Cardinality(correct_answers),
            error |-> "none"]
    ELSE [is_correct |-> "false", score |-> 0, error |-> "none"]

\* exercise_evaluator/exercise_evaluator.py 134-189: evaluate_multiple_choice.
\* int(correct_points * (correct_count / total_correct)) truncates; for the
\* points and set sizes used here the float product is exact.
evaluate_multiple_choice(user_selections, correct_answers, allow_multiple, allow_partial, correct_points, incorrect_points) ==
    IF ~allow_multiple /\ Len(user_selections) > 1
      THEN [is_correct |-> "false", score |-> 0,
            error |-> "multiple_selections_not_allowed"]
    ELSE LET user_set == set_of(user_selections)
             correct_set == correct_answers
             common == user_set \cap correct_set
         IN  IF user_set = correct_set
               THEN [is_correct |-> "true", score |-> correct_points,
                     error |-> "none"]
             ELSE IF allow_partial /\ common # {}
               THEN [is_correct |-> "false",
                     score |-> (correct_points * Cardinality(common))
                                  \div Cardinality(correct_set),
                     error |-> "none"]
             ELSE [is_correct |-> "false", score |-> incorrect_points,
                   error |-> "none"]

\* The tables are empty and no request is running: the state in which a
\* response is evaluated on its own.
NoTables ==
    /\ student_tests = <<>>
    /\ submissions = <<>>
    /\ answers = <<>>
    /\ scores = <<>>
    /\ now = 0
    /\ pc = [p \in Procs |-> "idle"]
    /\ loc = [p \in Procs |-> NoLoc]
    /\ result = [p \in Procs |-> NoResult]

\* A response to a multiple_choice exercise has been received and is not
\* evaluated yet.
InitChoice ==
    /\ NoTables
    /\ evaluation \in
          [evaluator : {"multiple_choice"},
           user_selections : ListsOf(Options, MaxSelections),
           correct_answers : SUBSET Options,
           allow_multiple : BOOLEAN, allow_partial : BOOLEAN,
           correct_points : CorrectPoints, incorrect_points : IncorrectPoints,
           is_correct : {"null"}, score : {NoScore}, error : {"none"},
           response_score : {NoScore}]

\* routes/exercise_routes.py 347-366: submit_exercise_response evaluates the
\* response of a multiple_choice exercise and stores evaluation.score as the
\* score of the UserResponse.
SubmitMultipleChoice ==
    /\ evaluation.evaluator = "multiple_choice"
    /\ evaluation.is_correct = "null"
    /\ evaluation' =
          LET v == evaluate_multiple_choice(evaluation.user_selections,
                       evaluation.correct_answers, evaluation.allow_multiple,
                       evaluation.allow_partial, evaluation.correct_points,
                       evaluation.incorrect_points)
          IN  [evaluation EXCEPT !.is_correct = v.is_correct,
                                 !.score = v.score,
                                 !.error = v.error,
                                 !.response_score = v.score]
    /\ UNCHANGED <<student_tests, submissions, answers, scores, now, pc, loc, result>>

NextChoice == SubmitMultipleChoice

SpecChoice == InitChoice /\ [][NextChoice]_vars

\* ------------------------------------------------- assign_test_to_student
\* services.py 110-113: look the assignment of the student and the test up.
\* 115-119: an existing assignment gets the new due_at and max_attempts on
\* the object read, attempts_used as read; 120-129: otherwise a new
\* assignment with attempts_used 0 is built.
AssignFind(p, due_at, max_attempts) ==
    /\ pc[p] = "idle"
    /\ IF student_tests # <<>>
         THEN Goto(p, "assign_test", "assign_save",
                   [NoLoc EXCEPT !.st = <<[student_tests[1] EXCEPT
                                              !.due_at = due_at,
                                              !.max_attempts = max_attempts]>>,
                                 !.existing = 1],
                   "none")
         ELSE Goto(p, "assign_test", "assign_save",
                   [NoLoc EXCEPT !.st = <<[max_attempts |-> max_attempts,
                                           attempts_used |-> 0,
                                           due_at |-> due_at]>>],
                   "none")
    /\ UNCHANGED <<evaluation, student_tests, submissions, answers, scores, now>>

\* services.py 119, 131: save() writes the object: an UPDATE of the row read,
\* or an INSERT, which UNIQUE (student_id, test_id) of update_schema.py 175
\* refuses when the row has appeared meanwhile.
AssignSave(p) ==
    /\ pc[p] = "assign_save"
    /\ IF loc[p].existing # NoId \/ student_tests = <<>>
         THEN /\ student_tests' = loc[p].st
              /\ Return(p, "assign_test", "ok", "none")
         ELSE /\ UNCHANGED student_tests
              /\ Return(p, "assign_test", "IntegrityError", "none")
    /\ UNCHANGED <<evaluation, submissions, answers, scores, now>>

\* Assignments and starts of one student and one test, each call running
\* from its first statement to its last before the next begins.
NextAssign ==
    \/ Tick
    \/ \E p \in Procs, due_at \in {NoDue, 0}, max_attempts \in 1..MaxAttemptsInit :
          Alone(p) /\ AssignFind(p, due_at, max_attempts)
    \/ \E p \in Procs : Alone(p) /\ AssignSave(p)
    \/ \E p \in Procs : Alone(p) /\ StartCheck(p)
    \/ \E p \in Procs : Alone(p) /\ StartIncrement(p)
    \/ \E p \in Procs : Alone(p) /\ StartSave(p)

SpecAssign == Init /\ [][NextAssign]_vars

\* ----------------------------------------------------------------- fill_blank
\* str.lower() on the words of the model.
lower(w) ==
    IF w = "Paris" THEN "paris"
    ELSE IF w = "Python" THEN "python"
    ELSE IF w = "Lutetia" THEN "lutetia"
    ELSE IF w = "Rome" THEN "rome"
    ELSE w

\* What a learner writes into a blank; "" stands for a blank whose key is
\* missing from the answers (user_answers.get(str(idx), "")).
UserWords == {"", "Paris", "paris", "Lutetia"}
CorrectWords == {"Paris", "Rome"}
AlternateSets == { {}, {"Lutetia"} }
PointsPerCorrect == {1, 2}

\* exercise_evaluator.py 211-239: blank idx (counted from 1 here) is correct:
\* the answer equals the correct answer, or one of the alternates of the
\* blank when there are alternates for it; both sides lowered unless
\* case_sensitive.
blank_correct(idx, user_answers, correct_answers, alternate_answers, case_sensitive) ==
    LET user_answer == IF case_sensitive THEN user_answers[idx]
                       ELSE lower(user_answers[idx])
        processed_correct == IF case_sensitive THEN correct_answers[idx]
                             ELSE lower(correct_answers[idx])
    IN  \/ user_answer = processed_correct
        \/ /\ idx <= Len(alternate_answers)
           /\ user_answer \in { IF case_sensitive THEN alt ELSE lower(alt) :
                                   alt \in alternate_answers[idx] }

\* The scoring of the blanks without points_per_correct: every correct
\* blank counts one point.
evaluate_fill_blank_one_point(shape, user_answers, correct_answers, alternate_answers, case_sensitive, points_per_correct) ==
    IF shape = "list" /\ Len(correct_answers) > 0
      THEN [is_correct |-> "none", score |-> NoScore, correct_count |-> 0,
            total_blanks |-> Len(correct_answers), error |-> "AttributeError"]
    ELSE LET n == Cardinality({ idx \in 1..Len(correct_answers) :
                      blank_correct(idx, user_answers, correct_answers,
                                    alternate_answers, case_sensitive) })
         IN  [is_correct |-> IF n = Len(correct_answers) THEN "true" ELSE "false",
              score |-> n, correct_count |-> n,
              total_blanks |-> Len(correct_answers), error |-> "none"]

\* exercise_evaluator.py 192-270: evaluate_fill_blank.  The answers are read
\* with user_answers.get(str(idx), ""): when the response carries them as a
\* list the first blank raises AttributeError.
evaluate_fill_blank(shape, user_answers, correct_answers, alternate_answers, case_sensitive, points_per_correct) ==
    LET count[idx \in 0..Len(correct_answers)] ==
            IF idx = 0 THEN 0
            ELSE count[idx - 1]
                   + (IF blank_correct(idx, user_answers, correct_answers,
                                       alternate_answers, case_sensitive)
                        THEN 1 ELSE 0)
        correct_count == count[Len(correct_answers)]
        total_blanks == Len(correct_answers)
    IN  IF shape = "list" /\ total_blanks > 0
          THEN [is_correct |-> "none", score |-> NoScore, correct_count |-> 0,
                total_blanks |-> total_blanks, error |-> "AttributeError"]
          ELSE [is_correct |-> IF correct_count = total_blanks
                                 THEN "true" ELSE "false",
                score |-> correct_count * points_per_correct,
                correct_count |-> correct_count,
                total_blanks |-> total_blanks, error |-> "none"]

\* A response to a fill_blank exercise has been received: its answers come
\* as a dict keyed by the blank's index or as a list.
InitBlank ==
    /\ NoTables
    /\ evaluation \in
          [evaluator : {"fill_blank"},
           shape : {"dict", "list"},
           user_answers : [1..MaxBlanks -> UserWords],
           correct_answers : ListsOf(CorrectWords, MaxBlanks),
           alternate_answers : ListsOf(AlternateSets, MaxBlanks),
           case_sensitive : BOOLEAN,
           points_per_correct : PointsPerCorrect,
           is_correct : {"null"}, score : {NoScore}, correct_count : {0},
           total_blanks : {0}, error : {"none"}]

\* exercise_evaluator.py 65-66: the dispatcher returns what
\* evaluate_fill_blank returns, or its exception.
EvaluateFillBlank ==
    /\ evaluation.evaluator = "fill_blank"
    /\ evaluation.is_correct = "null"
    /\ evaluation' =
          LET v == evaluate_fill_blank(evaluation.shape, evaluation.user_answers,
                       evaluation.correct_answers, evaluation.alternate_answers,
                       evaluation.case_sensitive, evaluation.points_per_correct)
          IN  [evaluation EXCEPT !.is_correct = v.is_correct,
                                 !.score = v.score,
                                 !.correct_count = v.correct_count,
                                 !.total_blanks = v.total_blanks,
                                 !.error = v.error]
    /\ UNCHANGED <<student_tests, submissions, answers, scores, now, pc, loc, result>>

NextBlank == EvaluateFillBlank

SpecBlank == InitBlank /\ [][NextBlank]_vars

\* ------------------------------------------------------------- matching_words
Lefts == {"France", "UK", "Italy"}
Rights == {"Paris", "London", "Rome"}

\* The answer keys: one, two or three pairs.
CorrectPairLists ==
    { << <<"France", "Paris">> >>,
      << <<"France", "Paris">>, <<"UK", "London">> >>,
      << <<"France", "Paris">>, <<"UK", "London">>, <<"Italy", "Rome">> >> }

\* The pairs a learner can send: the three right ones and a wrong one.
StudentPairs ==
    { <<"France", "Paris">>, <<"UK", "London">>, <<"Italy", "Rome">>,
      <<"UK", "Paris">> }

\* Python's round() of n/d for n >= 0, d > 0: to the nearest integer, a tie
\* to the even one.
round_half_even(n, d) ==
    LET q == n \div d
        r == n % d
    IN  IF 2 * r < d THEN q
        ELSE IF 2 * r > d THEN q + 1
        ELSE IF q % 2 = 0 THEN q ELSE q + 1

\* database/services.py 352-368: _auto_grade_answer for matching_words.
\* correct_count counts the entries of the student's list that are in the
\* key, one per entry; the partial score is the quotient itself, kept here
\* as score_num / score_den.
auto_grade_matching_words(student_pairs, correct_pairs, max_score_) ==
    LET correct_count == Cardinality({ k \in 1..Len(student_pairs) :
                             student_pairs[k] \in set_of(correct_pairs) })
        total_pairs == Len(correct_pairs)
    IN  IF correct_count = total_pairs
          THEN [is_correct |-> "true", score_num |-> max_score_, score_den |-> 1]
          ELSE [is_correct |-> "false", score_num |-> correct_count * max_score_,
                score_den |-> total_pairs]

\* app/services/exercise_evaluator.py 168-196: MatchingWordsEvaluator.evaluate.
\* The key and the response are dicts from the left word to the right word;
\* "absent" stands for a left word the response has no entry for.
MatchingWordsEvaluator_evaluate(user_matches, correct_pairs, max_score_) ==
    LET correct_count == Cardinality({ k \in 1..Len(correct_pairs) :
                             user_matches[correct_pairs[k][1]] = correct_pairs[k][2] })
        total == Len(correct_pairs)
        score == IF total > 0 THEN round_half_even(max_score_ * correct_count, total)
                 ELSE 0
    IN  [is_correct |-> IF score = max_score_ THEN "true" ELSE "false",
         score_num |-> score, score_den |-> 1]

\* A matching_words answer waits for its verdict, in the service that grades
\* a submission or in the evaluator class of the backend.
InitMatch ==
    /\ NoTables
    /\ evaluation \in
          [evaluator : {"matching_words_service"},
           student_pairs : ListsOf(StudentPairs, MaxPairs),
           correct_pairs : CorrectPairLists,
           max_score : MaxScores,
           is_correct : {"null"}, score_num : {NoScore}, score_den : {1}]
          \cup
          [evaluator : {"matching_words_evaluator"},
           user_matches : [Lefts -> Rights \cup {"absent"}],
           correct_pairs : CorrectPairLists,
           max_score : MaxScores,
           is_correct : {"null"}, score_num : {NoScore}, score_den : {1}]

AutoGradeMatchingWords ==
    /\ evaluation.evaluator = "matching_words_service"
    /\ evaluation.is_correct = "null"
    /\ evaluation' =
          LET v == auto_grade_matching_words(evaluation.student_pairs,
                       evaluation.correct_pairs, evaluation.max_score)
          IN  [evaluation EXCEPT !.is_correct = v.is_correct,
                                 !.score_num = v.score_num,
                                 !.score_den = v.score_den]
    /\ UNCHANGED <<student_tests, submissions, answers, scores, now, pc, loc, result>>

EvaluateMatchingWords ==
    /\ evaluation.evaluator = "matching_words_evaluator"
    /\ evaluation.is_correct = "null"
    /\ evaluation' =
          LET v == MatchingWordsEvaluator_evaluate(evaluation.user_matches,
                       evaluation.correct_pairs, evaluation.max_score)
          IN  [evaluation EXCEPT !.is_correct = v.is_correct,
                                 !.score_num = v.score_num,
                                 !.score_den = v.score_den]
    /\ UNCHANGED <<student_tests, submissions, answers, scores, now, pc, loc, result>>

NextMatch ==
    \/ AutoGradeMatchingWords
    \/ EvaluateMatchingWords

SpecMatch == InitMatch /\ [][NextMatch]_vars

\* --------------------------------------------------------------- short_answer
\* The words of a response, as user_answer.split() separates them.
ResponseWords == {"Python", "python", "high-level", "programming", "dynamic", "is"}

\* The correct answers of the exercise, one word each.
KeywordLists ==
    { <<>>, <<"Python">>,
      <<"Python", "high-level", "programming", "dynamic">> }

\* keyword_match_threshold as numerator and denominator: the default 0.7,
\* 0.5 and 1.
KeywordThresholds == { <<7, 10>>, <<1, 2>>, <<1, 1>> }

Strategies == {"case_insensitive", "contains_keywords"}

\* The threshold is compared with > where the code has >=.
evaluate_short_answer_above_threshold(user_words, correct_answers, strategy, keyword_match_threshold, correct_points, incorrect_points) ==
    LET keywords == { lower(a) : a \in set_of(correct_answers) }
        matched_keywords == keywords \cap { lower(w) : w \in set_of(user_words) }
        is_correct ==
            IF strategy = "case_insensitive"
              THEN Len(user_words) = 1 /\ lower(user_words[1]) \in keywords
              ELSE /\ keywords # {}
                   /\ Cardinality(matched_keywords) * keyword_match_threshold[2]
                         > keyword_match_threshold[1] * Cardinality(keywords)
    IN  [is_correct |-> IF is_correct THEN "true" ELSE "false",
         score |-> IF is_correct THEN correct_points ELSE incorrect_points,
         matched |-> Cardinality(matched_keywords)]

\* exercise_evaluator.py 413-490: evaluate_short_answer, without alternate
\* answers.  case_insensitive compares the whole lowered response with each
\* lowered correct answer; contains_keywords compares the share of the
\* keywords found among the words of the response with the threshold, and
\* takes the share as 0 when there is no keyword.
evaluate_short_answer(user_words, correct_answers, strategy, keyword_match_threshold, correct_points, incorrect_points) ==
    LET keywords == { lower(a) : a \in set_of(correct_answers) }
        user_words_set == { lower(w) : w \in set_of(user_words) }
        matched_keywords == keywords \cap user_words_set
        is_correct ==
            IF strategy = "case_insensitive"
              THEN /\ Len(user_words) = 1
                   /\ \E k \in 1..Len(correct_answers) :
                         lower(user_words[1]) = lower(correct_answers[k])
              ELSE IF keywords # {}
                THEN Cardinality(matched_keywords) * keyword_match_threshold[2]
                        >= keyword_match_threshold[1] * Cardinality(keywords)
                ELSE 0 >= keyword_match_threshold[1]
    IN  [is_correct |-> IF is_correct THEN "true" ELSE "false",
         score |-> IF is_correct THEN correct_points ELSE incorrect_points,
         matched |-> Cardinality(matched_keywords)]

\* A response to a short_answer exercise has been received.
InitShort ==
    /\ NoTables
    /\ evaluation \in
          [evaluator : {"short_answer"},
           user_words : ListsOf(ResponseWords, MaxWords),
           correct_answers : KeywordLists,
           strategy : Strategies,
           keyword_match_threshold : KeywordThresholds,
           correct_points : {1, 5},
           incorrect_points : {0},
           is_correct : {"null"}, score : {NoScore}, matched : {0}]

\* exercise_evaluator.py 71-72: the dispatcher returns what
\* evaluate_short_answer returns.
EvaluateShortAnswer ==
    /\ evaluation.evaluator = "short_answer"
    /\ evaluation.is_correct = "null"
    /\ evaluation' =
          LET v == evaluate_short_answer(evaluation.user_words,
                       evaluation.correct_answers, evaluation.strategy,
                       evaluation.keyword_match_threshold,
                       evaluation.correct_points, evaluation.incorrect_points)
          IN  [evaluation EXCEPT !.is_correct = v.is_correct,
                                 !.score = v.score,
                                 !.matched = v.matched]
    /\ UNCHANGED <<student_tests, submissions, answers, scores, now, pc, loc, result>>

NextShort == EvaluateShortAnswer

SpecShort == InitShort /\ [][NextShort]_vars

\* ================================================================== claims
\* ------------------------------------------------------------------ C1
\* C1: for an assignment with max_attempts = N at most N start_test calls
\* succeed (each successful call creates one Submission), whatever the
\* interleaving of the calls.
C1_AtMostNStartsSucceed ==
    student_tests # <<>> => Len(submissions) <= student_tests[1].max_attempts

\* ------------------------------------------------------------------ C2
\* C2: the counter update and the Submission creation are one atomic step:
\* in every reachable state attempts_used equals the number of Submissions.
C2_CounterEqualsSubmissions ==
    student_tests # <<>> => student_tests[1].attempts_used = Len(submissions)

\* ------------------------------------------------------------------ C3
\* C3: every Submission is created in_progress with attempt_number =
\* attempts_used before the call + 1, so no two Submissions of the assignment
\* carry the same attempt_number.
C3_AttemptNumbersDistinct ==
    \A i, j \in 1..Len(submissions) :
        i # j => submissions[i].attempt_number # submissions[j].attempt_number

\* ------------------------------------------------------------------ C4
\* The assignment as the call finds it refuses a start.
Refused ==
    \/ student_tests = <<>>
    \/ student_tests[1].attempts_used >= student_tests[1].max_attempts
    \/ (student_tests[1].due_at # NoDue /\ now > student_tests[1].due_at)

\* C4: a start_test call that finds the test unassigned, the attempts used up
\* or the due date passed ends at once with an error, and creates no
\* Submission and leaves attempts_used as it was.
C4_RefusedStartHasNoEffect ==
    [][\A p \in Procs :
         (/\ pc[p] = "idle"
          /\ result'[p].op = "start_test"
          /\ (pc'[p] # "idle" \/ result'[p] # result[p])
          /\ Refused)
         => /\ pc'[p] = "idle"
            /\ result'[p].outcome = "ValidationError"
            /\ submissions' = submissions
            /\ student_tests' = student_tests]_vars

\* A start was refused because the attempts are used up, after a start that
\* succeeded.
C4_Witness ==
    \E p \in Procs :
        /\ result[p].op = "start_test"
        /\ result[p].outcome = "ValidationError"
        /\ student_tests # <<>>
        /\ student_tests[1].due_at = NoDue
        /\ student_tests[1].attempts_used >= student_tests[1].max_attempts
        /\ Len(submissions) >= 1

\* ------------------------------------------------------------------ C5
\* C5: a submit_answer call that finds its Submission submitted or graded is
\* rejected at once and leaves every Answer as it was.
C5_LateAnswerRejected ==
    [][\A p \in Procs :
         (/\ pc[p] = "idle"
          /\ result'[p].op = "submit_answer"
          /\ (pc'[p] # "idle" \/ result'[p] # result[p])
          /\ result'[p].seen \in {"submitted", "graded"})
         => /\ pc'[p] = "idle"
            /\ result'[p].outcome = "ValidationError"
            /\ answers' = answers]_vars

\* An answer to a graded Submission, which has Answers, was rejected.
C5_Witness ==
    \E p \in Procs :
        /\ result[p].op = "submit_answer"
        /\ result[p].outcome = "ValidationError"
        /\ result[p].seen = "graded"
        /\ Len(answers) >= 1

\* ------------------------------------------------------------------ C6
\* C6: every Answer was created, and last written, while its Submission was
\* in_progress.
C6_AnswersWrittenInProgress ==
    \A a \in 1..Len(answers) : answers[a].wstatus = "in_progress"

\* ------------------------------------------------------------------ C7
\* C7: submit_answer calls made one after the other are an upsert with last
\* write wins: a question never has two Answers, the call that returns leaves
\* exactly one Answer for its question, holding the data of that call, and
\* the Answers of the other questions as they were; a call that repeats the
\* stored data changes nothing.
C7_UpsertLastWriteWins ==
    /\ [](\A sid \in SubIds, qid \in Questions :
             Cardinality(AnswerIds(sid, qid)) <= 1)
    /\ [][\A p \in Procs :
            (pc[p] \in {"answer_update", "answer_insert"} /\ pc'[p] = "idle")
            => LET sid == loc[p].sid
                   qid == loc[p].qid
                   mine == { a \in 1..Len(answers') :
                               /\ answers'[a].submission_id = sid
                               /\ answers'[a].question_id = qid }
               IN  /\ Cardinality(mine) = 1
                   /\ \A a \in mine : answers'[a].answer_data = loc[p].data
                   /\ \A a \in 1..Len(answers) :
                         a \notin mine => answers'[a] = answers[a]
                   /\ Len(answers') = Len(answers) + (IF AnswerIds(sid, qid) = {} THEN 1 ELSE 0)
                   /\ (\E a \in AnswerIds(sid, qid) :
                           answers[a].answer_data = loc[p].data)
                      => answers' = answers]_vars

\* An Answer was overwritten: one call inserted the row, the next call updated
\* it, and the row holds the option of the later call.
C7_Witness ==
    \E p \in Procs, q \in Procs :
        /\ p # q
        /\ result[p].op = "submit_answer" /\ result[p].outcome = "ok_update"
        /\ result[q].op = "submit_answer" /\ result[q].outcome = "ok_insert"
        /\ Len(answers) = 1
        /\ answers[1].answer_data = "A"

\* ------------------------------------------------------------------ C8
\* C8: of any number of complete_submission calls on one Submission exactly
\* one succeeds: a Submission is completed at most once.
C8_CompletedAtMostOnce ==
    \A s \in 1..Len(submissions) : submissions[s].completions <= 1

\* ------------------------------------------------------------------ C9
\* C9: status submitted is never exposed: no request ever reads a Submission
\* in status submitted.
C9_SubmittedNeverObserved ==
    \A p \in Procs : result[p].seen # "submitted"

\* ------------------------------------------------------------------ C10
\* C10: after a successful complete, every Answer (recorded while the
\* Submission was in_progress) of an auto-graded exercise carries a verdict
\* stored with graded_by = auto, and every Answer of a manually graded
\* exercise is untouched.
C10_CompletedAnswersGraded ==
    \A a \in 1..Len(answers) :
        (/\ submissions[answers[a].submission_id].completions >= 1
         /\ answers[a].wstatus = "in_progress")
        => IF grading_type(answers[a].question_id) = "auto"
             THEN answers[a].graded_by = "auto" /\ answers[a].is_correct # "null"
             ELSE answers[a].graded_by = "unset" /\ answers[a].is_correct = "null"

\* ------------------------------------------------------------------ C11
\* C11: manually_grade_answer is accepted only when the parent Submission of
\* the Answer is graded: a call that finds it in_progress or submitted is
\* rejected, and no step of such a call changes an Answer or a Score.
C11_ManualGradeOnlyWhenGraded ==
    [][\A p \in Procs :
          ( /\ <<pc[p], result[p]>> # <<pc'[p], result'[p]>>
            /\ result'[p].op = "manually_grade_answer"
            /\ result'[p].seen \in {"in_progress", "submitted"} )
          => ( /\ result'[p].outcome = "ValidationError"
               /\ answers' = answers
               /\ scores' = scores )]_vars

\* ------------------------------------------------------------------ C12
\* The position of a status on in_progress -> submitted -> graded.
status_rank(st) ==
    IF st = "in_progress" THEN 0 ELSE IF st = "submitted" THEN 1 ELSE 2

\* C12: the status of a Submission only moves forward along in_progress ->
\* submitted -> graded: no step moves it backward, and once it is graded no
\* step changes it.
C12_StatusOnlyMovesForward ==
    [][\A s \in 1..Len(submissions) :
          status_rank(submissions'[s].status) >= status_rank(submissions[s].status)]_vars

C14_AnswerScoreWithinMax ==
    \A a \in 1..Len(answers) :
        answers[a].score # NoScore
        => /\ 0 <= answers[a].score
           /\ answers[a].score <= max_score(answers[a].question_id)

\* ------------------------------------------------------------------ C15
\* C15: for every Score, percentage is between 0 and 100 (here 0 and 10000
\* hundredths), and it is exactly 0 when max_possible_score is 0.
C15_PercentageInRange ==
    \A k \in 1..Len(scores) :
        /\ percentage(scores[k]) >= 0
        /\ percentage(scores[k]) <= 10000
        /\ scores[k].max_possible_score = 0 => percentage(scores[k]) = 0

pending_manual(s) ==
    \E a \in 1..Len(answers) :
        /\ answers[a].submission_id = s
        /\ grading_type(answers[a].question_id) = "manual"
        /\ answers[a].is_correct = "null"

\* C17: once a value has been reported for a Submission and every call has
\* returned, the reported needs-manual-review value is true exactly when
\* some manual Answer of the Submission is still ungraded.
C17_NeedsManualReviewExact ==
    (\A p \in Procs : pc[p] = "idle")
    => \A s \in 1..Len(submissions) :
          submissions[s].needs_manual # "none"
          => (submissions[s].needs_manual = "true" <=> pending_manual(s))

\* ------------------------------------------------------------------ C18
\* The Answers and the Scores of submission s, as they are in the tables.
answers_of(ans, s) ==
    { <<a, ans[a]>> : a \in { b \in 1..Len(ans) : ans[b].submission_id = s } }

scores_of(scs, s) ==
    { scs[k] : k \in score_ids(scs, s) }

\* C18: a step of submit_answer, complete_submission or
\* manually_grade_answer for one Submission leaves the status, the Answers
\* and the Score of every other Submission unchanged (and the step that only
\* reads, at the start of a call, changes nothing).
C18_OtherSubmissionsUntouched ==
    [][\A p \in Procs :
          <<pc[p], loc[p]>> # <<pc'[p], loc'[p]>>
          => \A s \in 1..Len(submissions) :
                (pc[p] = "idle" \/ s # loc[p].sid)
                => /\ submissions'[s] = submissions[s]
                   /\ answers_of(answers', s) = answers_of(answers, s)
                   /\ scores_of(scores', s) = scores_of(scores, s)]_vars

\* The first Submission has been completed, manually graded and scored
\* while the second, still in progress, holds an Answer.
C18_Witness ==
    /\ Len(submissions) = 2
    /\ submissions[1].status = "graded"
    /\ submissions[2].status = "in_progress"
    /\ \E a \in 1..Len(answers) : answers[a].submission_id = 2
    /\ \E a \in 1..Len(answers) :
          answers[a].submission_id = 1 /\ answers[a].graded_by = "manual"
    /\ scores_of(scores, 1) # {}

\* ------------------------------------------------------------------ C19
\* C19: for every exercise with grading_type manual, whatever its type and
\* whatever the response, the evaluation does not score it: is_correct is
\* not true and the score is 0 (or none).
C19_ManualModeNeverScored ==
    (evaluation.evaluator # "none" /\ evaluation.grading_type = "manual")
    => /\ evaluation.is_correct # "true"
       /\ evaluation.score \in {0, NoScore}

\* ------------------------------------------------------------------ C20
\* The types some evaluator of the system knows.
KnownTypes ==
    {"word_scramble", "multiple_choice", "fill_blank", "true_false",
     "long_answer", "syn_ant", "sentence_reordering", "matching_words",
     "short_answer", "cloze_test", "comprehension", "image_labeling"}

\* C20: for every exercise type that is not a known type the result is
\* is_correct not true and score 0, and the answer is not marked as graded
\* automatically.
C20_UnknownTypeNeverAutoGraded ==
    (evaluation.evaluator # "none" /\ evaluation.exercise_type \notin KnownTypes)
    => /\ evaluation.is_correct # "true"
       /\ evaluation.score \in {0, NoScore}
       /\ evaluation.evaluator \in {"service", "crud"}
             => evaluation.graded_by # "auto"

\* ------------------------------------------------------------------ C21
\* A multiple_choice response has been evaluated.
ChoiceEvaluated ==
    evaluation.evaluator = "multiple_choice" /\ evaluation.is_correct # "null"

\* C21 as stated: for every multiple_choice exercise with allow_multiple
\* false and every correct option set, a response that selects exactly the
\* correct option set is correct and scores correct_points.
C21_ExactSetFullPoints ==
    ( /\ ChoiceEvaluated
      /\ ~evaluation.allow_multiple
      /\ set_of(evaluation.user_selections) = evaluation.correct_answers )
    => /\ evaluation.is_correct = "true"
       /\ evaluation.score = evaluation.correct_points

\* C21 amended: with allow_multiple false, a response of at most one
\* selection that selects exactly the correct option set is correct and
\* scores correct_points.
C21_SingleSelectionFullPoints ==
    ( /\ ChoiceEvaluated
      /\ ~evaluation.allow_multiple
      /\ Len(evaluation.user_selections) <= 1
      /\ set_of(evaluation.user_selections) = evaluation.correct_answers )
    => /\ evaluation.is_correct = "true"
       /\ evaluation.score = evaluation.correct_points

\* The one correct option of a single-selection exercise worth 5 points has
\* been selected and evaluated.
C21_Witness ==
    /\ ChoiceEvaluated
    /\ ~evaluation.allow_multiple
    /\ evaluation.user_selections = <<"A">>
    /\ evaluation.correct_answers = {"A"}
    /\ evaluation.correct_points = 5
    /\ evaluation.score = 5

\* ------------------------------------------------------------------ C22
\* n / d rounded to the nearest integer, ties rounded half up (n >= 0, d > 0).
round_half_up(n, d) == (2 * n + d) \div (2 * d)

\* C22: with allow_partial, a response that is not exactly the correct set
\* but intersects it scores correct_points * |intersection| / |correct set|
\* rounded to the nearest integer, ties half up.
C22_PartialCreditRoundedHalfUp ==
    ( /\ ChoiceEvaluated
      /\ evaluation.error = "none"
      /\ evaluation.allow_partial
      /\ set_of(evaluation.user_selections) # evaluation.correct_answers
      /\ set_of(evaluation.user_selections) \cap evaluation.correct_answers # {} )
    => evaluation.score =
          round_half_up(evaluation.correct_points
                          * Cardinality(set_of(evaluation.user_selections)
                                           \cap evaluation.correct_answers),
                        Cardinality(evaluation.correct_answers))

\* ------------------------------------------------------------------ C23
\* A verdict has been returned for a fill_blank response.
BlankEvaluated ==
    evaluation.evaluator = "fill_blank" /\ evaluation.is_correct \in {"true", "false"}

\* The blanks the response fills with the correct answer or an alternate.
CorrectBlanks ==
    { idx \in 1..Len(evaluation.correct_answers) :
        LET norm(w) == IF evaluation.case_sensitive THEN w ELSE lower(w)
            alts == IF idx <= Len(evaluation.alternate_answers)
                      THEN evaluation.alternate_answers[idx] ELSE {}
        IN  \E w \in {evaluation.correct_answers[idx]} \cup alts :
               norm(evaluation.user_answers[idx]) = norm(w) }

MatchEvaluated ==
    /\ evaluation.evaluator \in {"matching_words_service", "matching_words_evaluator"}
    /\ evaluation.is_correct \in {"true", "false"}

\* The pairs the response holds.
ResponsePairs ==
    IF evaluation.evaluator = "matching_words_service"
      THEN set_of(evaluation.student_pairs)
      ELSE { <<l, evaluation.user_matches[l]>> : l \in Lefts }

\* The response lists a pair of the key more than once.
RepeatsCorrectPair ==
    /\ evaluation.evaluator = "matching_words_service"
    /\ \E j, k \in 1..Len(evaluation.student_pairs) :
          /\ j < k
          /\ evaluation.student_pairs[j] = evaluation.student_pairs[k]
          /\ evaluation.student_pairs[j] \in set_of(evaluation.correct_pairs)

\* C24: a matching_words verdict has the score correctCount / totalPairs *
\* maxScore rounded to an integer, and is correct only when the response
\* holds every pair of the answer key and repeats none of them.
C24_MatchingProportionalAndExact ==
    MatchEvaluated
    => LET key == set_of(evaluation.correct_pairs)
           correctCount == Cardinality(key \cap ResponsePairs)
       IN  /\ evaluation.score_num
                = evaluation.score_den
                    * round_half_up(correctCount * evaluation.max_score,
                                    Cardinality(key))
           /\ evaluation.is_correct = "true"
                 => key \subseteq ResponsePairs /\ ~RepeatsCorrectPair

\* ------------------------------------------------------------------ C25
\* C25: the evaluator is total: every response, well-formed or not, gets a
\* verdict and nothing is raised, and a response of the wrong container
\* shape (the answers of one or more blanks as a list where a dict is read)
\* gets is_correct false, score 0 and a format error.
C25_EvaluatorTotal ==
    (evaluation.evaluator = "fill_blank" /\ evaluation.is_correct # "null")
    => /\ evaluation.is_correct \in {"true", "false"}
       /\ (evaluation.shape = "list" /\ Len(evaluation.correct_answers) > 0)
             => /\ evaluation.is_correct = "false"
                /\ evaluation.score = 0
                /\ evaluation.error = "invalid_format"

PartialCreditApplies ==
    /\ evaluation.allow_partial
    /\ set_of(evaluation.user_selections) \cap evaluation.correct_answers # {}

KeywordsEvaluated ==
    /\ evaluation.evaluator = "short_answer"
    /\ evaluation.strategy = "contains_keywords"
    /\ evaluation.is_correct # "null"

\* The keywords of the exercise that occur among the words of the response,
\* letter case aside.
MatchedKeywords ==
    { k \in set_of(evaluation.correct_answers) :
        \E j \in 1..Len(evaluation.user_words) :
           lower(evaluation.user_words[j]) = lower(k) }

FourKeywords == <<"Python", "high-level", "programming", "dynamic">>

C28_OneAnswerPerQuestion ==
    \A s \in 1..Len(submissions), q \in Questions :
        \A a, b \in AnswerIds(s, q) : a = b

\* ------------------------------------------------------------------ C29
\* C29: in every state reached by start_test and assign_test_to_student,
\* re-assignment of an assigned test included, attempts_used <= max_attempts
\* holds for the assignment and every Submission's attempt_number is <= the
\* assignment's max_attempts.
C29_AttemptsWithinMaxAfterReassign ==
    \A t \in 1..Len(student_tests) :
        /\ student_tests[t].attempts_used <= student_tests[t].max_attempts
        /\ \A s \in 1..Len(submissions) :
              submissions[s].attempt_number <= student_tests[t].max_attempts

\* ------------------------------------------------------------------ C30
\* C30: whenever the evaluator returns is_correct false, the score it
\* returns is strictly less than the full score correct_points: partial
\* credit is never the full score.
C30_NotCorrectBelowFullScore ==
    (ChoiceEvaluated /\ evaluation.is_correct = "false")
    => evaluation.score < evaluation.correct_points

====
